---- MODULE Spec2Model ----
(***************************************************************************)
(* wakalyze: heartbeats -> work sessions.  Model of src/src/core.rs.       *)
(*                                                                         *)
(* Encodings                                                               *)
(*   Option<T>     a sequence of length 0 (None) or 1 (Some(x))            *)
(*   String        a sequence of one-character strings                     *)
(*   f64 time      an integer count of 1/Den seconds                       *)
(*   i64           an integer (the modelled timestamps are far from the    *)
(*                 i64 limits, so no subtraction overflows)                *)
(***************************************************************************)
EXTENDS Integers, Sequences, FiniteSets, TLC

VARIABLES
    pc,          \* which call has been made: "ready" before, its name after
    heartbeats,  \* &[RawHeartbeat], the argument of extract_entries / build_sessions
    max_gap,     \* the gap threshold argument
    entries,     \* Vec<HeartbeatEntry> returned by extract_entries
    sessions,    \* Vec<Session> returned by build_sessions
    copy,        \* None, or Some([from, pos]): heartbeats[from] was inserted again after pos elements
    prev_sessions, \* the sessions returned before the copy was inserted
    times,       \* &[i64], the argument of estimate_seconds
    total,       \* the value returned by estimate_seconds
    value,       \* &str, the argument of parse_month
    parsed,      \* Result<NaiveDate> returned by parse_month
    first_day,   \* NaiveDate, the argument of week_range / month_last_day
    week,        \* u32, the argument of week_range
    week_result, \* Result<(NaiveDate, NaiveDate)> returned by week_range
    last_day,    \* NaiveDate returned by month_last_day
    range,       \* (start, end), the arguments of iter_dates
    dates,       \* Vec<NaiveDate> returned by iter_dates
    days,        \* Vec<DaySessions>: the argument of filter_sessions / the days handle_analyze has built
    filter,      \* Option<&str>, the filter argument
    filtered,    \* Vec<DaySessions> returned by filter_sessions
    idx,         \* number of dates handle_analyze's loop has completed
    fetch_log,   \* the fetches made so far: the date asked for and the server's response
    printed,     \* the lines written to standard output
    result,      \* None while handle_analyze runs, then Some(its Result<()>)
    args,        \* the --user and --base-url arguments of the command line
    config,      \* the stored Config: key, user, base_url
    env,         \* the environment: WAKAPI_KEY, WAKAPI_USER, WAKAPI_BASE_URL
    resolved,    \* None, or Some of the resolved base URL, user and auth header
    variant,     \* a second heartbeat list, derived from heartbeats
    variant_sessions, \* the sessions build_sessions returns for variant
    month_weeks  \* the results of week_range for the weeks 1..6 of first_day's month

\* the variables of the session builder, of estimate_seconds and of parse_month
coreVars == <<heartbeats, max_gap, entries, sessions, copy, prev_sessions,
              times, total, value, parsed>>

\* the variables of the calendar functions
calendarVars == <<first_day, week, week_result, last_day, range, dates>>

\* the variables of the specifications that follow those of the core
\* the variables of filter_sessions
filterVars == <<days, filter, filtered>>

\* the variables of handle_analyze's fetch loop
analyzeVars == <<idx, fetch_log, printed, result>>

\* the variables of the credential resolution
resolveVars == <<args, config, env, resolved>>

\* the variables of the specifications that compare several calls
sequelVars == <<resolveVars, variant, variant_sessions, month_weeks>>

\* the variables of the filter, of the command handler and of what follows them
pipelineVars == <<filterVars, analyzeVars, sequelVars>>

laterVars == <<calendarVars, pipelineVars>>

vars == <<pc, coreVars, laterVars>>

----------------------------------------------------------------------------
(* Bounds of the model *)

\* longest heartbeat list given to build_sessions / longest list of times
MaxLen == 3
\* longest heartbeat list given to extract_entries on its own
MaxRaw == 3
\* timestamps are drawn from 0..MaxTime (whole seconds)
MaxTime == 3
\* the gap threshold is drawn from -1..MaxGap
MaxGap == 2
\* a raw f64 time is an integer number of 1/Den seconds
Den == 2

----------------------------------------------------------------------------
(* Option<T> *)

None == <<>>
Some(x) == <<x>>

\* no calendar function has been given arguments
CalendarIdle ==
    /\ first_day = None
    /\ week = 0
    /\ week_result = None
    /\ last_day = None
    /\ range = None
    /\ dates = <<>>

\* nothing has been resolved and no call has been compared with another
SequelIdle ==
    /\ args = None
    /\ config = None
    /\ env = None
    /\ resolved = None
    /\ variant = <<>>
    /\ variant_sessions = <<>>
    /\ month_weeks = <<>>

\* filter_sessions and handle_analyze have not been called
PipelineIdle ==
    /\ SequelIdle
    /\ days = <<>>
    /\ filter = None
    /\ filtered = <<>>
    /\ idx = 0
    /\ fetch_log = <<>>
    /\ printed = <<>>
    /\ result = None

LaterIdle == CalendarIdle /\ PipelineIdle

\* neither the session builder, estimate_seconds nor parse_month has arguments
CoreIdle ==
    /\ heartbeats = <<>>
    /\ max_gap = 0
    /\ entries = <<>>
    /\ sessions = <<>>
    /\ copy = None
    /\ prev_sessions = <<>>
    /\ times = <<>>
    /\ total = 0
    /\ value = <<>>
    /\ parsed = None

\* all sequences over S of length at most n
SeqsUpTo(S, n) == UNION {[1..k -> S] : k \in 0..n}

----------------------------------------------------------------------------
(* core.rs: estimate_seconds *)

\* BTreeSet::insert followed by in-order iteration: a strictly ascending
\* sequence without repeats
BTreeInsert(sorted, t) ==
    IF \E i \in 1..Len(sorted) : sorted[i] = t
    THEN sorted
    ELSE LET k == Cardinality({i \in 1..Len(sorted) : sorted[i] < t})
         IN  SubSeq(sorted, 1, k) \o <<t>> \o SubSeq(sorted, k + 1, Len(sorted))

RECURSIVE BTreeCollect(_)
BTreeCollect(ts) ==
    IF ts = <<>> THEN <<>>
    ELSE BTreeInsert(BTreeCollect(SubSeq(ts, 1, Len(ts) - 1)), ts[Len(ts)])

GapCountsLt(gap, mg) == gap > 0 /\ gap < mg

\* core.rs:89  if gap > 0 && gap <= max_gap
GapCounts(gap, mg) == gap > 0 /\ gap <= mg

RECURSIVE SumWindows(_, _, _)
SumWindows(sorted, i, mg) ==
    IF i >= Len(sorted) THEN 0
    ELSE LET gap == sorted[i + 1] - sorted[i]
         IN  (IF GapCounts(gap, mg) THEN gap ELSE 0) + SumWindows(sorted, i + 1, mg)

estimate_seconds(ts, mg) == SumWindows(BTreeCollect(ts), 1, mg)

----------------------------------------------------------------------------
(* core.rs: extract_entries *)

Whitespace == {" ", "\t"}

RECURSIVE trim_start(_)
trim_start(s) ==
    IF s # <<>> /\ s[1] \in Whitespace THEN trim_start(Tail(s)) ELSE s

RECURSIVE trim_end(_)
trim_end(s) ==
    IF s # <<>> /\ s[Len(s)] \in Whitespace
    THEN trim_end(SubSeq(s, 1, Len(s) - 1)) ELSE s

\* str::trim
trim(s) == trim_end(trim_start(s))

TruncFloor(n) == n \div Den

\* core.rs:100  `f64 as i64`: the fraction is dropped, towards zero
TruncToI64(n) == IF n >= 0 THEN n \div Den ELSE -((-n) \div Den)

NormalizeTrimmed(project) ==
    IF project # None /\ trim(project[1]) # <<>> THEN Some(trim(project[1])) ELSE None

\* core.rs:101-105  .as_deref().filter(|p| !p.trim().is_empty()).map(String::from)
NormalizeProject(project) ==
    IF project # None /\ trim(project[1]) # <<>> THEN project ELSE None

\* the filter_map closure: None for a record without time
EntryOf(hb) ==
    IF hb.time = None THEN None
    ELSE Some([time |-> TruncToI64(hb.time[1]), project |-> NormalizeProject(hb.project)])

RECURSIVE filter_map_entries(_)
filter_map_entries(hbs) ==
    IF hbs = <<>> THEN <<>>
    ELSE EntryOf(hbs[1]) \o filter_map_entries(Tail(hbs))

InsertBeforeEqual(sorted, e) ==
    LET k == Cardinality({i \in 1..Len(sorted) : sorted[i].time < e.time})
    IN  SubSeq(sorted, 1, k) \o <<e>> \o SubSeq(sorted, k + 1, Len(sorted))

\* one step of the stable sort: e goes after every element whose key is <= its key
InsertStable(sorted, e) ==
    LET k == Cardinality({i \in 1..Len(sorted) : sorted[i].time <= e.time})
    IN  SubSeq(sorted, 1, k) \o <<e>> \o SubSeq(sorted, k + 1, Len(sorted))

\* slice::sort_by_key(|e| e.time), a stable sort
RECURSIVE sort_by_key(_)
sort_by_key(es) ==
    IF es = <<>> THEN <<>>
    ELSE InsertStable(sort_by_key(SubSeq(es, 1, Len(es) - 1)), es[Len(es)])

extract_entries(hbs) == sort_by_key(filter_map_entries(hbs))

----------------------------------------------------------------------------
(* core.rs: build_sessions, make_session *)

SessionOfFirstTime(ts, project, mg) ==
    [start |-> ts[1], end |-> ts[1], seconds |-> 0, project |-> project]

\* core.rs:151-158
make_session(ts, project, mg) ==
    [start |-> ts[1], end |-> ts[Len(ts)],
     seconds |-> estimate_seconds(ts, mg), project |-> project]

NeverDuplicate(t, prev_time) == FALSE

\* core.rs:125  if entry.time == prev_time { continue; }
IsDuplicate(t, prev_time) == t = prev_time

ShouldExtendLt(gap, mg, project, current_project) ==
    gap < mg /\ project = current_project

ShouldExtendOr(gap, mg, project, current_project) ==
    gap <= mg \/ project = current_project

\* core.rs:129  if gap <= max_gap && entry.project == current_project
ShouldExtend(gap, mg, project, current_project) ==
    gap <= mg /\ project = current_project

\* the body of the for loop over entries[1..], for the entry at index i
LoopStep(st, entry, mg) ==
    IF IsDuplicate(entry.time, st.prev_time) THEN st
    ELSE LET gap == entry.time - st.prev_time IN
         IF ShouldExtend(gap, mg, entry.project, st.current_project)
         THEN [st EXCEPT !.current_times = Append(@, entry.time),
                         !.prev_time = entry.time]
         ELSE [sessions        |-> Append(st.sessions,
                                     make_session(st.current_times, st.current_project, mg)),
               current_times   |-> <<entry.time>>,
               current_project |-> entry.project,
               prev_time       |-> entry.time]

RECURSIVE Loop(_, _, _, _)
Loop(es, i, st, mg) ==
    IF i > Len(es) THEN st ELSE Loop(es, i + 1, LoopStep(st, es[i], mg), mg)

build_sessions(hbs, mg) ==
    LET es == extract_entries(hbs) IN
    IF es = <<>> THEN <<>>
    ELSE LET st0 == [sessions        |-> <<>>,
                     current_times   |-> <<es[1].time>>,
                     current_project |-> es[1].project,
                     prev_time       |-> es[1].time]
             st  == Loop(es, 2, st0, mg)
         IN  Append(st.sessions, make_session(st.current_times, st.current_project, mg))

----------------------------------------------------------------------------
(* Inputs *)

MaxGaps == -1..MaxGap

\* projects of the heartbeats given to build_sessions: absent, "a", "b"
SessionProjects == {None, Some(<<"a">>), Some(<<"b">>)}

\* whole-second times, or no time
SessionTimes == {None} \cup {Some(Den * t) : t \in 0..MaxTime}

SessionHeartbeats == [time : SessionTimes, project : SessionProjects]

----------------------------------------------------------------------------
(* Specification of build_sessions *)

Init ==
    /\ pc = "ready"
    /\ LaterIdle
    /\ heartbeats \in SeqsUpTo(SessionHeartbeats, MaxLen)
    /\ max_gap \in MaxGaps
    /\ entries = <<>>
    /\ sessions = <<>>
    /\ copy = None
    /\ prev_sessions = <<>>
    /\ times = <<>>
    /\ total = 0
    /\ value = <<>>
    /\ parsed = None

\* build_sessions(&heartbeats, max_gap)
BuildSessions ==
    /\ pc = "ready"
    /\ pc' = "built"
    /\ entries' = extract_entries(heartbeats)
    /\ sessions' = build_sessions(heartbeats, max_gap)
    /\ UNCHANGED <<heartbeats, max_gap, copy, prev_sessions, times, total, value, parsed>>
    /\ UNCHANGED laterVars

Next == BuildSessions

Spec == Init /\ [][Next]_vars

----------------------------------------------------------------------------
(* Claims about build_sessions *)

Built == pc = "built"

\* the timestamps of the sanitized entries
EntryTimes == {entries[i].time : i \in 1..Len(entries)}

\* the entries build_sessions does not skip: the first entry of each run of
\* equal timestamps in the sorted sequence
KeptIndices == {i \in 1..Len(entries) : i = 1 \/ entries[i].time # entries[i - 1].time}

\* t1 and t2 lie in one returned session
SameSession(t1, t2) ==
    \E k \in 1..Len(sessions) :
        /\ sessions[k].start <= t1 /\ t1 <= sessions[k].end
        /\ sessions[k].start <= t2 /\ t2 <= sessions[k].end

\* C1: with max_gap > 0 the sessions are in strictly ascending order of start,
\* never overlap (each end is below the next start), and two adjacent sessions
\* differ in project or are more than max_gap apart.
C1_OrderedDisjointSeparated ==
    (Built /\ max_gap > 0) =>
        \A k \in 1..(Len(sessions) - 1) :
            /\ sessions[k].start < sessions[k + 1].start
            /\ sessions[k].end < sessions[k + 1].start
            /\ \/ sessions[k].project # sessions[k + 1].project
               \/ sessions[k + 1].start - sessions[k].end > max_gap

\* three sessions, one split by a project change within the threshold and one
\* split by a gap above it with the project unchanged
C1_Witness ==
    /\ Built /\ max_gap > 0 /\ Len(sessions) = 3
    /\ sessions[1].project # sessions[2].project
    /\ sessions[2].start - sessions[1].end <= max_gap
    /\ sessions[2].project = sessions[3].project
    /\ sessions[3].start - sessions[2].end > max_gap

\* the entries have pairwise distinct timestamps
DistinctTimes == Cardinality(EntryTimes) = Len(entries)

\* C2: with pairwise distinct timestamps, two entries consecutive in time order
\* are in the same session iff their gap is <= max_gap and their normalized
\* projects are equal.
C2_SameSessionIff ==
    (Built /\ DistinctTimes) =>
        \A i \in 1..(Len(entries) - 1) :
            SameSession(entries[i].time, entries[i + 1].time)
                <=> /\ entries[i + 1].time - entries[i].time <= max_gap
                    /\ entries[i + 1].project = entries[i].project

\* a gap of exactly max_gap that does not split, followed by a gap of
\* max_gap + 1 that does, all with no project
C2_Witness ==
    /\ Built /\ DistinctTimes /\ Len(entries) = 3 /\ max_gap > 0
    /\ \A i \in 1..3 : entries[i].project = None
    /\ entries[2].time - entries[1].time = max_gap
    /\ entries[3].time - entries[2].time = max_gap + 1
    /\ SameSession(entries[1].time, entries[2].time)
    /\ ~SameSession(entries[2].time, entries[3].time)

\* C3: with max_gap > 0 every session has start <= end and seconds = end - start
\* (so 0 <= seconds <= end - start), and a single-timestamp session has 0 seconds.
C3_SecondsIsSpan ==
    (Built /\ max_gap > 0) =>
        \A k \in 1..Len(sessions) :
            /\ sessions[k].start <= sessions[k].end
            /\ sessions[k].seconds = sessions[k].end - sessions[k].start
            /\ 0 <= sessions[k].seconds
            /\ (sessions[k].start = sessions[k].end => sessions[k].seconds = 0)

\* one session made of three timestamps whose gaps are max_gap and less
C3_Witness ==
    /\ Built /\ max_gap > 1 /\ Len(sessions) = 1 /\ Len(entries) = 3
    /\ entries[2].time - entries[1].time = max_gap
    /\ entries[3].time - entries[2].time = 1
    /\ sessions[1].seconds = max_gap + 1

\* entries i and i+1 are in one session that carries their project
InOneSessionOfProject(i, j) ==
    \E k \in 1..Len(sessions) :
        /\ sessions[k].project = entries[i].project
        /\ sessions[k].start <= entries[i].time /\ entries[i].time <= sessions[k].end
        /\ sessions[k].start <= entries[j].time /\ entries[j].time <= sessions[k].end

\* C4 (as claimed): whenever two entries adjacent in the sorted entry sequence
\* have the same project and timestamps at most max_gap apart, both timestamps
\* belong to one session of that project.
C4_Claimed_AdjacentEntriesShareSession ==
    Built =>
        \A i \in 1..(Len(entries) - 1) :
            (/\ entries[i].project = entries[i + 1].project
             /\ entries[i + 1].time - entries[i].time <= max_gap)
                => InOneSessionOfProject(i, i + 1)

\* C4 (amended): the same, for two entries adjacent among the entries that are
\* not skipped as repeats of a timestamp (the first entry of each timestamp).
C4_KeptEntriesShareSession ==
    Built =>
        \A i, j \in KeptIndices :
            (/\ i < j
             /\ ~\E m \in KeptIndices : i < m /\ m < j
             /\ entries[i].project = entries[j].project
             /\ entries[j].time - entries[i].time <= max_gap)
                => InOneSessionOfProject(i, j)

\* a repeated timestamp with another project lies between two kept entries of
\* one project, which end up in one session
C4_Witness ==
    /\ Built /\ Len(entries) = 3 /\ Len(sessions) = 1
    /\ entries[1].time = entries[2].time
    /\ entries[1].project # entries[2].project
    /\ entries[3].project = entries[1].project
    /\ entries[3].time - entries[1].time = max_gap
    /\ sessions[1].start = entries[1].time /\ sessions[1].end = entries[3].time

\* C7 (as claimed): with max_gap <= 0 there is one session per sanitized
\* heartbeat, each with start = end = that heartbeat's timestamp and seconds = 0.
C7_Claimed_OneSessionPerHeartbeat ==
    (Built /\ max_gap <= 0) =>
        /\ Len(sessions) = Len(entries)
        /\ \A k \in 1..Len(sessions) :
            /\ k <= Len(entries)
            /\ sessions[k].start = entries[k].time
            /\ sessions[k].end = entries[k].time
            /\ sessions[k].seconds = 0

\* C7 (amended): with max_gap <= 0 there is one session per distinct timestamp
\* of the sanitized heartbeats, each with start = end = that timestamp and
\* seconds = 0.
C7_OneSessionPerTimestamp ==
    (Built /\ max_gap <= 0) =>
        /\ Len(sessions) = Cardinality(EntryTimes)
        /\ \A t \in EntryTimes : \E k \in 1..Len(sessions) : sessions[k].start = t
        /\ \A k \in 1..Len(sessions) :
            /\ sessions[k].start \in EntryTimes
            /\ sessions[k].end = sessions[k].start
            /\ sessions[k].seconds = 0

\* max_gap = 0, a record without time, a repeated timestamp and an adjacent
\* second of the same project: two sessions from three records
C7_Witness ==
    /\ Built /\ max_gap = 0 /\ Len(heartbeats) = MaxLen
    /\ Len(entries) = 2 /\ Len(sessions) = 2
    /\ entries[2].time = entries[1].time + 1
    /\ entries[2].project = entries[1].project

\* the integer timestamps of the heartbeats that have a time
InputTimes ==
    {TruncToI64(heartbeats[i].time[1]) :
        i \in {j \in 1..Len(heartbeats) : heartbeats[j].time # None}}

\* the sessions whose span [start, end] holds t
SessionsHolding(t) ==
    {k \in 1..Len(sessions) : sessions[k].start <= t /\ t <= sessions[k].end}

\* C23: build_sessions neither drops nor invents activity time: every integer
\* timestamp of a heartbeat with a time lies within [start, end] of exactly one
\* session, every session starts and ends on a timestamp of the input, and
\* there are at most as many sessions as distinct timestamps.
C23_NoTimeDroppedOrInvented ==
    Built =>
        /\ \A t \in InputTimes : Cardinality(SessionsHolding(t)) = 1
        /\ \A k \in 1..Len(sessions) :
               /\ sessions[k].start \in InputTimes
               /\ sessions[k].end \in InputTimes
        /\ Len(sessions) <= Cardinality(InputTimes)

\* three heartbeats at 0 s, 1 s and 3 s of one project with max_gap = 1: the
\* session [0, 1] holds the first two timestamps, the session [3, 3] the third
C23_Witness ==
    /\ Built /\ max_gap = 1
    /\ InputTimes = {0, 1, 3}
    /\ Len(sessions) = 2
    /\ sessions[1].start = 0 /\ sessions[1].end = 1
    /\ sessions[2].start = 3 /\ sessions[2].end = 3

----------------------------------------------------------------------------
(* Specification of build_sessions on an input and on that input with one
   heartbeat repeated *)

\* longest heartbeat list before a copy is inserted
MaxCopyLen == 2

\* hbs with hb inserted so that it becomes element pos + 1
InsertAt(hbs, pos, hb) == SubSeq(hbs, 1, pos) \o <<hb>> \o SubSeq(hbs, pos + 1, Len(hbs))

InitCopy ==
    /\ pc = "ready"
    /\ LaterIdle
    /\ heartbeats \in SeqsUpTo(SessionHeartbeats, MaxCopyLen)
    /\ max_gap \in MaxGaps
    /\ entries = <<>>
    /\ sessions = <<>>
    /\ copy = None
    /\ prev_sessions = <<>>
    /\ times = <<>>
    /\ total = 0
    /\ value = <<>>
    /\ parsed = None

\* the caller inserts a second copy of heartbeats[from] after pos elements
InsertCopy ==
    /\ pc = "built"
    /\ copy = None
    /\ \E from \in 1..Len(heartbeats) : \E pos \in 0..Len(heartbeats) :
        /\ heartbeats' = InsertAt(heartbeats, pos, heartbeats[from])
        /\ copy' = Some([from |-> from, pos |-> pos])
    /\ prev_sessions' = sessions
    /\ pc' = "copied"
    /\ UNCHANGED <<max_gap, entries, sessions, times, total, value, parsed>>
    /\ UNCHANGED laterVars

\* build_sessions(&heartbeats, max_gap) on the input that holds the copy
BuildSessionsAgain ==
    /\ pc = "copied"
    /\ pc' = "rebuilt"
    /\ entries' = extract_entries(heartbeats)
    /\ sessions' = build_sessions(heartbeats, max_gap)
    /\ UNCHANGED <<heartbeats, max_gap, copy, prev_sessions, times, total, value, parsed>>
    /\ UNCHANGED laterVars

NextCopy == BuildSessions \/ InsertCopy \/ BuildSessionsAgain

SpecCopy == InitCopy /\ [][NextCopy]_vars

Rebuilt == pc = "rebuilt"

\* C5 (as claimed): inserting, at any position of the input, a second copy of a
\* heartbeat that is already present leaves the result of build_sessions
\* unchanged (same sessions: same start, end, seconds and project for each).
C5_Claimed_DuplicateAnywhere ==
    Rebuilt => sessions = prev_sessions

\* C5 (amended): inserting the copy at any position after the heartbeat it
\* copies leaves the result of build_sessions unchanged.
C5_DuplicateAfterOriginal ==
    (Rebuilt /\ copy[1].pos >= copy[1].from) => sessions = prev_sessions

\* the copied heartbeat follows a heartbeat of the same timestamp and another
\* project, the copy is put at the end, and the one session is the same
C5_Witness ==
    /\ Rebuilt /\ Len(heartbeats) = 3 /\ Len(sessions) = 1
    /\ copy = Some([from |-> 2, pos |-> 2])
    /\ heartbeats[1].time # None
    /\ heartbeats[1].time = heartbeats[2].time
    /\ NormalizeProject(heartbeats[1].project) # NormalizeProject(heartbeats[2].project)
    /\ sessions = prev_sessions


----------------------------------------------------------------------------
(* Specification of estimate_seconds *)

\* the values of a list of times
TimeValues == 0..MaxTime

InitEstimate ==
    /\ pc = "ready"
    /\ LaterIdle
    /\ times \in SeqsUpTo(TimeValues, MaxLen + 1)
    /\ max_gap \in MaxGaps
    /\ total = 0
    /\ heartbeats = <<>>
    /\ entries = <<>>
    /\ sessions = <<>>
    /\ copy = None
    /\ prev_sessions = <<>>
    /\ value = <<>>
    /\ parsed = None

\* estimate_seconds(&times, max_gap)
EstimateSeconds ==
    /\ pc = "ready"
    /\ pc' = "estimated"
    /\ total' = estimate_seconds(times, max_gap)
    /\ UNCHANGED <<heartbeats, max_gap, entries, sessions, copy, prev_sessions, times, value, parsed>>
    /\ UNCHANGED laterVars

NextEstimate == EstimateSeconds

SpecEstimate == InitEstimate /\ [][NextEstimate]_vars

Estimated == pc = "estimated"

\* the set of distinct values of times
DistinctValues == {times[i] : i \in 1..Len(times)}

\* the values that have a smaller one before them in the sorted set
WithPredecessor == {v \in DistinctValues : \E u \in DistinctValues : u < v}

\* the value just before v in the sorted set of distinct values
Predecessor(v) == CHOOSE u \in DistinctValues :
    u < v /\ \A w \in DistinctValues : w < v => w <= u

RECURSIVE SumOfCountedGaps(_)
SumOfCountedGaps(S) ==
    IF S = {} THEN 0
    ELSE LET v == CHOOSE x \in S : TRUE
             g == v - Predecessor(v)
         IN  (IF 0 < g /\ g <= max_gap THEN g ELSE 0) + SumOfCountedGaps(S \ {v})

\* C6: estimate_seconds(times, max_gap) is the sum, over consecutive values of
\* the sorted set of distinct values, of the gaps g with 0 < g <= max_gap; the
\* empty list and one-element lists give 0.
C6_SumOfGapsWithinThreshold ==
    Estimated =>
        /\ total = SumOfCountedGaps(WithPredecessor)
        /\ (Len(times) <= 1 => total = 0)

\* an unsorted list with a repeat, one gap equal to max_gap (counted in full)
\* and one gap of max_gap + 1 (not counted at all)
C6_Witness ==
    /\ Estimated /\ max_gap >= 1 /\ Len(times) = 4
    /\ times[1] > times[2] /\ times[4] = times[1]
    /\ Cardinality(DistinctValues) = 3
    /\ \E a, b, c \in DistinctValues :
        /\ b - a = max_gap
        /\ c - b = max_gap + 1
    /\ total = max_gap

----------------------------------------------------------------------------
(* Specification of extract_entries *)

\* raw times: absent, or in 1/Den seconds: -(1 + 1/Den), -1/Den, 1 + 1/Den
RawTimes == {None, Some(-(Den + 1)), Some(-1), Some(Den + 1)}

\* raw project texts: "", " \t", "a", " a"
ProjectTexts == {<<>>, <<" ", "\t">>, <<"a">>, <<" ", "a">>}

RawProjects == {None} \cup {Some(p) : p \in ProjectTexts}

RawHeartbeats == [time : RawTimes, project : RawProjects]

InitExtract ==
    /\ pc = "ready"
    /\ LaterIdle
    /\ heartbeats \in SeqsUpTo(RawHeartbeats, MaxRaw)
    /\ entries = <<>>
    /\ max_gap = 0
    /\ sessions = <<>>
    /\ copy = None
    /\ prev_sessions = <<>>
    /\ times = <<>>
    /\ total = 0
    /\ value = <<>>
    /\ parsed = None

\* extract_entries(&heartbeats)
ExtractEntries ==
    /\ pc = "ready"
    /\ pc' = "extracted"
    /\ entries' = extract_entries(heartbeats)
    /\ UNCHANGED <<heartbeats, max_gap, sessions, copy, prev_sessions, times, total, value, parsed>>
    /\ UNCHANGED laterVars

NextExtract == ExtractEntries

SpecExtract == InitExtract /\ [][NextExtract]_vars

Extracted == pc = "extracted"

\* the records that have a time
WithTime == {j \in 1..Len(heartbeats) : heartbeats[j].time # None}

\* e is the raw time n (in 1/Den seconds) with its fraction dropped towards
\* zero: e is the integer nearest to n/Den that is not further from zero
TruncatedTowardZero(n, e) ==
    IF n >= 0 THEN e * Den <= n /\ n < (e + 1) * Den
    ELSE (e - 1) * Den < n /\ n <= e * Den

\* the integer seconds a raw time can truncate to
SecondValues == (-(Den + 1))..(Den + 1)

\* C8: extract_entries returns one entry for each record whose time is present
\* and none for the others; each entry's time is the record's time truncated
\* toward zero; the result is sorted ascending by time whatever the input order.
C8_OneEntryPerTimedRecordSorted ==
    Extracted =>
        /\ Len(entries) = Cardinality(WithTime)
        /\ \A v \in SecondValues :
            Cardinality({i \in 1..Len(entries) : entries[i].time = v})
                = Cardinality({j \in WithTime : TruncatedTowardZero(heartbeats[j].time[1], v)})
        /\ \A i \in 1..Len(entries) : entries[i].time \in SecondValues
        /\ \A i \in 1..(Len(entries) - 1) : entries[i].time <= entries[i + 1].time

\* a record without time is dropped, and a negative fractional time given after
\* a positive fractional one comes first, each truncated toward zero
C8_Witness ==
    /\ Extracted /\ Len(heartbeats) = 3 /\ Len(entries) = 2
    /\ heartbeats[1].time = None
    /\ \E j, k \in WithTime :
        /\ j < k
        /\ heartbeats[j].time[1] > Den /\ heartbeats[j].time[1] % Den # 0
        /\ heartbeats[k].time[1] < -Den /\ heartbeats[k].time[1] % Den # 0
        /\ entries[1].time * Den > heartbeats[k].time[1]
        /\ entries[2].time * Den < heartbeats[j].time[1]

\* every character of s is white space
OnlyWhitespace(s) == \A i \in 1..Len(s) : s[i] \in Whitespace

\* the project an entry must carry for a record's project
ExpectedProject(project) ==
    IF project = None \/ OnlyWhitespace(project[1]) THEN None ELSE project

\* the record j and the entry i belong together
Matches(j, i) ==
    /\ TruncatedTowardZero(heartbeats[j].time[1], entries[i].time)
    /\ entries[i].project = ExpectedProject(heartbeats[j].project)

\* C9: an absent, empty or whitespace-only project becomes None; any other
\* project is kept exactly as received, surrounding white space included.
C9_ProjectNormalized ==
    Extracted =>
        /\ \A j \in WithTime : \E i \in 1..Len(entries) : Matches(j, i)
        /\ \A i \in 1..Len(entries) : \E j \in WithTime : Matches(j, i)

\* " a" is kept with its leading blank next to a whitespace-only project that
\* became None
C9_Witness ==
    /\ Extracted /\ Len(entries) = 2
    /\ \E j, k \in WithTime :
        /\ heartbeats[j].project = Some(<<" ", "a">>)
        /\ heartbeats[k].project = Some(<<" ", "\t">>)
    /\ \E i, m \in 1..2 :
        /\ entries[i].project = Some(<<" ", "a">>)
        /\ entries[m].project = None

----------------------------------------------------------------------------
(* core.rs: parse_month *)

Digits == <<"0", "1", "2", "3", "4", "5", "6", "7", "8", "9">>

IsDigit(c) == \E i \in 1..Len(Digits) : Digits[i] = c

DigitValue(c) == (CHOOSE i \in 1..Len(Digits) : Digits[i] = c) - 1

\* str::split_once('/'): the text before and after the first '/', or None
split_once(s) ==
    IF \E i \in 1..Len(s) : s[i] = "/"
    THEN LET k == CHOOSE i \in 1..Len(s) : s[i] = "/" /\ \A j \in 1..(i - 1) : s[j] # "/"
         IN  Some(<<SubSeq(s, 1, k - 1), SubSeq(s, k + 1, Len(s))>>)
    ELSE None

\* the value of a string of decimal digits
RECURSIVE DecimalValue(_)
DecimalValue(ds) ==
    IF ds = <<>> THEN 0
    ELSE 10 * DecimalValue(SubSeq(ds, 1, Len(ds) - 1)) + DigitValue(ds[Len(ds)])

AllDigits(ds) == ds # <<>> /\ \A i \in 1..Len(ds) : IsDigit(ds[i])

\* str::parse for i32 (signed) and u32 (not signed): an optional '+', for a
\* signed type an optional '-', then at least one decimal digit; None on error.
\* (No 4- or 2-character text overflows i32 or u32.)
parse_int(src, signed) ==
    IF src = <<>> THEN None
    ELSE IF src[1] = "+" THEN
            (IF AllDigits(Tail(src)) THEN Some(DecimalValue(Tail(src))) ELSE None)
    ELSE IF src[1] = "-" /\ signed THEN
            (IF AllDigits(Tail(src)) THEN Some(-DecimalValue(Tail(src))) ELSE None)
    ELSE IF AllDigits(src) THEN Some(DecimalValue(src)) ELSE None

InvalidMonth == [ok |-> FALSE, err |-> "InvalidMonth"]

\* NaiveDate::from_ymd_opt(year, month, 1): every year of at most 4 characters
\* is in chrono's range, so only the month decides
from_ymd_opt_day1(year, month) ==
    IF 1 <= month /\ month <= 12
    THEN Some([year |-> year, month |-> month, day |-> 1])
    ELSE None

parse_month(v) ==
    LET parts == split_once(v) IN
    IF parts = None THEN InvalidMonth
    ELSE LET year_str  == parts[1][1]
             month_str == parts[1][2]
         IN  IF Len(year_str) # 4 \/ Len(month_str) # 2 THEN InvalidMonth
             ELSE LET year  == parse_int(year_str, TRUE)
                      month == parse_int(month_str, FALSE)
                  IN  IF year = None THEN InvalidMonth
                      ELSE IF month = None THEN InvalidMonth
                      ELSE LET date == from_ymd_opt_day1(year[1], month[1])
                           IN  IF date = None THEN InvalidMonth
                               ELSE [ok |-> TRUE, date |-> date[1]]

----------------------------------------------------------------------------
(* Specification of parse_month *)

\* longest text given to parse_month
MaxText == 7

\* the characters of the texts
MonthChars == {"0", "1", "2", "/", "+", "-"}

InitMonth ==
    /\ pc = "ready"
    /\ LaterIdle
    /\ value \in SeqsUpTo(MonthChars, MaxText)
    /\ parsed = None
    /\ heartbeats = <<>>
    /\ max_gap = 0
    /\ entries = <<>>
    /\ sessions = <<>>
    /\ copy = None
    /\ prev_sessions = <<>>
    /\ times = <<>>
    /\ total = 0

\* parse_month(value)
ParseMonth ==
    /\ pc = "ready"
    /\ pc' = "parsed"
    /\ parsed' = parse_month(value)
    /\ UNCHANGED <<heartbeats, max_gap, entries, sessions, copy, prev_sessions, times, total, value>>
    /\ UNCHANGED laterVars

NextMonth == ParseMonth

SpecMonth == InitMonth /\ [][NextMonth]_vars

Parsed == pc = "parsed"

\* value has the strict shape YYYY/MM: four decimal digits, '/', two decimal
\* digits, the month in 01..12
StrictShape ==
    /\ Len(value) = 7
    /\ value[5] = "/"
    /\ \A i \in {1, 2, 3, 4, 6, 7} : IsDigit(value[i])
    /\ 10 * DigitValue(value[6]) + DigitValue(value[7]) \in 1..12

\* C10 (as claimed): parse_month succeeds exactly on texts of the strict shape
\* YYYY/MM and then returns day 1 of that year and month; every other text
\* fails with InvalidMonth.
C10_Claimed_StrictShapeOnly ==
    Parsed =>
        /\ parsed.ok <=> StrictShape
        /\ parsed.ok =>
            /\ parsed.date.day = 1
            /\ parsed.date.month = 10 * DigitValue(value[6]) + DigitValue(value[7])
            /\ parsed.date.year = 1000 * DigitValue(value[1]) + 100 * DigitValue(value[2])
                                    + 10 * DigitValue(value[3]) + DigitValue(value[4])
        /\ ~parsed.ok => parsed.err = "InvalidMonth"

----------------------------------------------------------------------------
(* chrono::NaiveDate: a date of the proleptic Gregorian calendar *)

Date(y, m, d) == [year |-> y, month |-> m, day |-> d]

IsLeapYear(y) == (y % 4 = 0 /\ y % 100 # 0) \/ y % 400 = 0

DaysInMonth(y, m) ==
    IF m = 2 THEN (IF IsLeapYear(y) THEN 29 ELSE 28)
    ELSE IF m \in {4, 6, 9, 11} THEN 30
    ELSE 31

\* NaiveDate::from_ymd_opt: None unless the day exists (the years of the model
\* are within chrono's range)
from_ymd_opt(y, m, d) ==
    IF m \in 1..12 /\ d >= 1 /\ d <= DaysInMonth(y, m) THEN Some(Date(y, m, d)) ELSE None

\* NaiveDate::succ_opt, the next day
succ_opt(d) ==
    IF d.day < DaysInMonth(d.year, d.month) THEN Some(Date(d.year, d.month, d.day + 1))
    ELSE IF d.month < 12 THEN Some(Date(d.year, d.month + 1, 1))
    ELSE Some(Date(d.year + 1, 1, 1))

\* NaiveDate::pred_opt, the day before
pred_opt(d) ==
    IF d.day > 1 THEN Some(Date(d.year, d.month, d.day - 1))
    ELSE IF d.month > 1 THEN Some(Date(d.year, d.month - 1, DaysInMonth(d.year, d.month - 1)))
    ELSE Some(Date(d.year - 1, 12, 31))

\* the order of NaiveDate: by year, then by day within the year
DateLt(a, b) ==
    \/ a.year < b.year
    \/ a.year = b.year /\ a.month < b.month
    \/ a.year = b.year /\ a.month = b.month /\ a.day < b.day

DateLe(a, b) == a = b \/ DateLt(a, b)

\* the number of days from 1970-01-01 to d
DaysFromEpoch(d) ==
    LET y   == IF d.month <= 2 THEN d.year - 1 ELSE d.year
        era == y \div 400
        yoe == y - era * 400
        mp  == IF d.month > 2 THEN d.month - 3 ELSE d.month + 9
        doy == (153 * mp + 2) \div 5 + d.day - 1
        doe == yoe * 365 + yoe \div 4 - yoe \div 100 + doy
    IN  era * 146097 + doe - 719468

\* the date n days after 1970-01-01
DateFromEpochDays(n) ==
    LET z   == n + 719468
        era == z \div 146097
        doe == z - era * 146097
        yoe == (doe - doe \div 1460 + doe \div 36524 - doe \div 146096) \div 365
        doy == doe - (365 * yoe + yoe \div 4 - yoe \div 100)
        mp  == (5 * doy + 2) \div 153
        m   == IF mp < 10 THEN mp + 3 ELSE mp - 9
    IN  Date(IF m <= 2 THEN yoe + era * 400 + 1 ELSE yoe + era * 400,
             m, doy - (153 * mp + 2) \div 5 + 1)

\* NaiveDate + Duration::days(n), n of either sign: through the day count
add_days(d, n) == DateFromEpochDays(DaysFromEpoch(d) + n)

num_days_from_monday(d) == (DaysFromEpoch(d) + 3) % 7

\* Weekday::num_days_from_sunday: 0 for a Sunday (1970-01-01 was a Thursday)
num_days_from_sunday(d) == (DaysFromEpoch(d) + 4) % 7

----------------------------------------------------------------------------
(* core.rs: month_last_day, iter_dates, week_range *)

NextMonthSameYear(d) ==
    IF d.month = 12 THEN <<d.year, 1>> ELSE <<d.year, d.month + 1>>

\* core.rs:50-54  the year and month after those of first_day
NextMonthOf(d) ==
    IF d.month = 12 THEN <<d.year + 1, 1>> ELSE <<d.year, d.month + 1>>

month_last_day(d) ==
    LET ym == NextMonthOf(d)
    IN  pred_opt(from_ymd_opt(ym[1], ym[2], 1)[1])[1]

KeepIfBefore(d, end) == IF d # None /\ DateLt(d[1], end) THEN d ELSE None

\* core.rs:62-63  .filter(|&d| d <= end)
KeepIfNotAfter(d, end) == IF d # None /\ DateLe(d[1], end) THEN d ELSE None

\* std::iter::successors(first, succ).collect()
RECURSIVE Successors(_, _)
Successors(cur, end) ==
    IF cur = None THEN <<>>
    ELSE <<cur[1]>> \o Successors(KeepIfNotAfter(succ_opt(cur[1]), end), end)

iter_dates(start, end) == Successors(KeepIfNotAfter(Some(start), end), end)

WeekInRangeFrom0(w) == w \in 0..6

\* core.rs:69  (1..=6).contains(&week)
WeekInRange(w) == w \in 1..6

StartNotBefore(start, last) == DateLe(last, start)

\* core.rs:77  start > last
StartAfter(start, last) == DateLt(last, start)

InvalidWeek == [ok |-> FALSE, err |-> "InvalidWeek"]
WeekOutOfRange(w) == [ok |-> FALSE, err |-> "WeekOutOfRange", week |-> w]

\* core.rs:72  first_day.weekday().num_days_from_sunday()
DayOfWeek(d) == num_days_from_sunday(d)

week_range(d, w) ==
    IF ~WeekInRange(w) THEN InvalidWeek
    ELSE LET dow         == DayOfWeek(d)
             week1_start == add_days(d, -dow)
             start       == add_days(week1_start, (w - 1) * 7)
             end         == add_days(start, 6)
             last        == month_last_day(d)
         IN  IF StartAfter(start, last) THEN WeekOutOfRange(w)
             ELSE [ok |-> TRUE, start |-> start, end |-> end]

----------------------------------------------------------------------------
(* Specification of week_range *)

\* the years run from 2023 to 2023 + YearSpan, with 1900 and 2000
YearSpan == 3
\* the week numbers run from 0 to MaxWeek
MaxWeek == 7

Years == {1900, 2000} \cup (2023..(2023 + YearSpan))

\* the first days of the months, as parse_month returns them
FirstDays == {Date(y, m, 1) : y \in Years, m \in 1..12}

InitWeek ==
    /\ pc = "ready"
    /\ CoreIdle
    /\ PipelineIdle
    /\ first_day \in {Some(d) : d \in FirstDays}
    /\ week \in 0..MaxWeek
    /\ week_result = None
    /\ last_day = None
    /\ range = None
    /\ dates = <<>>

\* week_range(first_day, week)
WeekRange ==
    /\ pc = "ready"
    /\ pc' = "week"
    /\ week_result' = Some(week_range(first_day[1], week))
    /\ UNCHANGED <<coreVars, first_day, week, last_day, range, dates>>
    /\ UNCHANGED pipelineVars

NextWeek == WeekRange

SpecWeek == InitWeek /\ [][NextWeek]_vars

WeekDone == pc = "week"

WeekOk == WeekDone /\ week_result[1].ok

\* the day number of the Sunday on or before first_day
SundayOnOrBefore ==
    CHOOSE n \in (DaysFromEpoch(first_day[1]) - 6)..DaysFromEpoch(first_day[1]) :
        (n + 4) % 7 = 0

\* the day number of the last day of first_day's month
LastDayNumber ==
    LET ym == IF first_day[1].month = 12 THEN <<first_day[1].year + 1, 1>>
              ELSE <<first_day[1].year, first_day[1].month + 1>>
    IN  DaysFromEpoch(Date(ym[1], ym[2], 1)) - 1

C12_Claimed_MondayWeeks ==
    /\ (WeekOk /\ week = 1) =>
        /\ (DaysFromEpoch(week_result[1].start) + 3) % 7 = 0
        /\ DaysFromEpoch(week_result[1].start) <= DaysFromEpoch(first_day[1])
        /\ DaysFromEpoch(first_day[1]) <= DaysFromEpoch(week_result[1].end)
    /\ (WeekDone /\ first_day[1] = Date(2026, 2, 1) /\ week = 5) =>
        /\ week_result[1].ok
        /\ week_result[1].start = Date(2026, 2, 23)
        /\ week_result[1].end = Date(2026, 3, 1)

----------------------------------------------------------------------------
(* Specification of month_last_day *)

\* days of the months: the 1st, the 15th and the 28th of every month
MonthDays == {Date(y, m, d) : y \in Years, m \in 1..12, d \in {1, 15, 28}}

InitLastDay ==
    /\ pc = "ready"
    /\ CoreIdle
    /\ PipelineIdle
    /\ first_day \in {Some(d) : d \in MonthDays}
    /\ week = 0
    /\ week_result = None
    /\ last_day = None
    /\ range = None
    /\ dates = <<>>

\* month_last_day(first_day)
MonthLastDay ==
    /\ pc = "ready"
    /\ pc' = "last_day"
    /\ last_day' = Some(month_last_day(first_day[1]))
    /\ UNCHANGED <<coreVars, first_day, week, week_result, range, dates>>
    /\ UNCHANGED pipelineVars

NextLastDay == MonthLastDay

SpecLastDay == InitLastDay /\ [][NextLastDay]_vars

LastDayDone == pc = "last_day"

\* the number of the last day of month m of year y
ExpectedLastDay(y, m) ==
    CASE m = 2 /\ (y % 400 = 0 \/ (y % 4 = 0 /\ y % 100 # 0)) -> 29
      [] m = 2 -> 28
      [] m \in {4, 6, 9, 11} -> 30
      [] OTHER -> 31

\* C14: month_last_day(d) is the last day of d's month: 28 for February of a
\* non-leap year, 29 of a leap year, 30 or 31 for the other months, 31 December
\* of the same year for December; the day after it is day 1 of the next month.
C14_LastDayOfMonth ==
    LastDayDone =>
        LET d == first_day[1]
            r == last_day[1]
        IN  /\ r.year = d.year
            /\ r.month = d.month
            /\ r.day = ExpectedLastDay(d.year, d.month)
            /\ DateFromEpochDays(DaysFromEpoch(r) + 1).day = 1
            /\ DateFromEpochDays(DaysFromEpoch(r) + 1).month = (d.month % 12) + 1

\* December 2025 gives 31 December 2025, the day before 1 January 2026
C14_Witness ==
    /\ LastDayDone
    /\ first_day[1] = Date(2025, 12, 1)
    /\ last_day[1] = Date(2025, 12, 31)
    /\ DateFromEpochDays(DaysFromEpoch(last_day[1]) + 1) = Date(2026, 1, 1)

----------------------------------------------------------------------------
(* Specification of iter_dates *)

\* start and end are at most MaxSpan days after the first day of a window
MaxSpan == 5

\* windows across the end of February (leap and not) and the end of a year
WindowStarts == {Date(2024, 2, 27), Date(2023, 2, 26), Date(2025, 12, 29)}

Window(w) == {DateFromEpochDays(DaysFromEpoch(w) + k) : k \in 0..MaxSpan}

InitDates ==
    /\ pc = "ready"
    /\ CoreIdle
    /\ PipelineIdle
    /\ range \in UNION {{Some(<<a, b>>) : a, b \in Window(w)} : w \in WindowStarts}
    /\ dates = <<>>
    /\ first_day = None
    /\ week = 0
    /\ week_result = None
    /\ last_day = None

\* iter_dates(start, end)
IterDates ==
    /\ pc = "ready"
    /\ pc' = "dates"
    /\ dates' = iter_dates(range[1][1], range[1][2])
    /\ UNCHANGED <<coreVars, first_day, week, week_result, last_day, range>>
    /\ UNCHANGED pipelineVars

NextDates == IterDates

SpecDates == InitDates /\ [][NextDates]_vars

DatesDone == pc = "dates"

\* C15: when start <= end, iter_dates returns the (end - start + 1) consecutive
\* dates from start to end in ascending order, with no gap and no repeat; when
\* start > end it returns the empty list.
C15_ConsecutiveDates ==
    DatesDone =>
        LET s == DaysFromEpoch(range[1][1])
            e == DaysFromEpoch(range[1][2])
        IN  /\ s <= e =>
                /\ Len(dates) = e - s + 1
                /\ \A i \in 1..Len(dates) : DaysFromEpoch(dates[i]) = s + i - 1
                /\ dates[1] = range[1][1]
                /\ dates[Len(dates)] = range[1][2]
            /\ s > e => dates = <<>>

\* from 27 February to 2 March 2024: five dates, 29 February among them
C15_Witness ==
    /\ DatesDone
    /\ range[1] = <<Date(2024, 2, 27), Date(2024, 3, 2)>>
    /\ Len(dates) = 5
    /\ dates[3] = Date(2024, 2, 29)
    /\ dates[5] = Date(2024, 3, 2)

----------------------------------------------------------------------------
(* core.rs: filter_sessions *)

\* most days in the list given to filter_sessions
MaxDays == 2
\* most sessions in the days of that list, taken together
MaxFilterSessions == 3

\* char::to_lowercase on the letters of the model's alphabet
LowerChar(c) ==
    CASE c = "A" -> "a"
      [] c = "B" -> "b"
      [] OTHER -> c

\* str::to_lowercase
to_lowercase(s) == [i \in 1..Len(s) |-> LowerChar(s[i])]

\* str::split(','): the pieces between the commas, empty pieces included
RECURSIVE split(_)
split(s) ==
    IF \A i \in 1..Len(s) : s[i] # ","
    THEN <<s>>
    ELSE LET i == CHOOSE k \in 1..Len(s) :
                      /\ s[k] = ","
                      /\ \A j \in 1..(k - 1) : s[j] # ","
         IN  <<SubSeq(s, 1, i - 1)>> \o split(SubSeq(s, i + 1, Len(s)))

ContainsWhole(hay, needle) == hay = needle

\* str::contains: needle is a substring of hay
contains(hay, needle) ==
    \E i \in 0..(Len(hay) - Len(needle)) :
        SubSeq(hay, i + 1, i + Len(needle)) = needle

\* core.rs:166-170  split(',') . map(trim, to_lowercase) . filter(non-empty)
Needles(term) ==
    LET pieces == split(term)
        mapped == [i \in 1..Len(pieces) |-> to_lowercase(trim(pieces[i]))]
    IN  SelectSeq(mapped, LAMBDA n : n # <<>>)

NeverNoNeedles(needles) == FALSE

\* core.rs:172  if needles.is_empty()
NoNeedles(needles) == needles = <<>>

SessionKeptAsPrinted(s, needles) ==
    LET proj == to_lowercase(IF s.project = None
                             THEN <<"u", "n", "k", "n", "o", "w", "n">>
                             ELSE s.project[1])
    IN  \E k \in 1..Len(needles) : contains(proj, needles[k])

\* core.rs:181-182  the closure of the session filter
SessionKept(s, needles) ==
    LET proj == to_lowercase(IF s.project = None THEN <<>> ELSE s.project[1])
    IN  \E k \in 1..Len(needles) : contains(proj, needles[k])

KeepEveryDay(kept) == TRUE

\* core.rs:186-193  a day is emitted when a session survives
DayKept(kept) == kept # <<>>

\* core.rs:176-196  days.iter().filter_map(...).collect()
RECURSIVE filter_map_days(_, _)
filter_map_days(ds, needles) ==
    IF ds = <<>>
    THEN <<>>
    ELSE LET day == Head(ds)
             kept == SelectSeq(day.sessions, LAMBDA s : SessionKept(s, needles))
             rest == filter_map_days(Tail(ds), needles)
         IN  IF DayKept(kept)
             THEN <<[date |-> day.date, sessions |-> kept]>> \o rest
             ELSE rest

filter_sessions(ds, f) ==
    IF f = None \/ f[1] = <<>>
    THEN ds
    ELSE LET needles == Needles(f[1])
         IN  IF NoNeedles(needles)
             THEN ds
             ELSE filter_map_days(ds, needles)

----------------------------------------------------------------------------
(* Specification SpecFilter: filter_sessions on its own *)

\* the projects of the sessions: none, mixed case, lower case
FilterProjects == {None, Some(<<"A", "b">>), Some(<<"b">>)}

\* the filter texts: empty, blank, blank parts, one term, several terms
FilterTexts ==
    { <<>>, <<" ">>, <<" ", ",", " ">>,
      <<"a">>, <<"B">>, <<"b", "a">>,
      <<"x", ",", " ", "A">>, <<"a", "b", ",">> }

Filters == {None} \cup {Some(t) : t \in FilterTexts}

\* the j-th session of a day, one second long
SessionAt(j, project) ==
    [start |-> 2 * j, end |-> 2 * j + 1, seconds |-> 1, project |-> project]

\* the i-th day of the list: consecutive dates, as iter_dates yields them
DayAt(i, projects) ==
    [date |-> Date(2026, 2, i),
     sessions |-> [j \in 1..Len(projects) |-> SessionAt(j, projects[j])]]

\* the project lists of n days holding at most room sessions together
RECURSIVE DayProjects(_, _)
DayProjects(n, room) ==
    IF n = 0
    THEN {<<>>}
    ELSE UNION {{<<first>> \o rest : rest \in DayProjects(n - 1, room - Len(first))} :
                   first \in SeqsUpTo(FilterProjects, room)}

DayLists ==
    {[i \in 1..Len(ps) |-> DayAt(i, ps[i])] :
        ps \in UNION {DayProjects(n, MaxFilterSessions) : n \in 0..MaxDays}}

InitFilter ==
    /\ pc = "ready"
    /\ CoreIdle
    /\ CalendarIdle
    /\ SequelIdle
    /\ days \in DayLists
    /\ filter \in Filters
    /\ filtered = <<>>
    /\ idx = 0
    /\ fetch_log = <<>>
    /\ printed = <<>>
    /\ result = None

\* filter_sessions(&days, filter)
FilterSessions ==
    /\ pc = "ready"
    /\ pc' = "filtered"
    /\ filtered' = filter_sessions(days, filter)
    /\ UNCHANGED <<coreVars, calendarVars, days, filter, analyzeVars, sequelVars>>

NextFilter == FilterSessions

SpecFilter == InitFilter /\ [][NextFilter]_vars

FilterDone == pc = "filtered"

\* the comma-free stretches of a text: from i to j, between commas or the ends
Pieces(t) ==
    {SubSeq(t, b[1], b[2]) :
        b \in {c \in (1..(Len(t) + 1)) \X (0..Len(t)) :
                  /\ c[2] >= c[1] - 1
                  /\ \A k \in c[1]..c[2] : t[k] # ","
                  /\ c[1] = 1 \/ t[c[1] - 1] = ","
                  /\ c[2] = Len(t) \/ t[c[2] + 1] = ","}}

\* a text with its capital letters replaced by the small ones
Lowercased(s) ==
    [i \in 1..Len(s) |-> IF s[i] = "A" THEN "a" ELSE IF s[i] = "B" THEN "b" ELSE s[i]]

\* the non-empty terms of a filter text, trimmed and lowercased
Terms(t) == {Lowercased(trim(p)) : p \in Pieces(t)} \ {<<>>}

\* the filter is active: it has at least one non-empty term
FilterActive == filter # None /\ Terms(filter[1]) # {}

\* the session's project, lowercased, contains one of the terms
SessionMatches(s) ==
    LET proj == Lowercased(IF s.project = None THEN <<>> ELSE s.project[1])
    IN  \E term \in Terms(filter[1]) :
            \E a \in 1..(Len(proj) + 1), b \in 0..Len(proj) :
                SubSeq(proj, a, b) = term

MatchingSessions(day) == SelectSeq(day.sessions, SessionMatches)

\* C16: with an active filter, a session is kept iff its lowercased project
\* (absent project read as the empty string) contains at least one lowercased
\* term; every output day holds exactly the matching sessions of its input day,
\* in their original order and with all four fields unchanged.
C16_KeepsExactlyMatchingSessions ==
    (FilterDone /\ FilterActive) =>
        /\ \A k \in 1..Len(filtered) :
               \E i \in 1..Len(days) :
                   /\ filtered[k].date = days[i].date
                   /\ filtered[k].sessions = MatchingSessions(days[i])
        /\ \A i \in 1..Len(days) :
               \A j \in 1..Len(days[i].sessions) :
                   SessionMatches(days[i].sessions[j]) <=>
                       \E k \in 1..Len(filtered) :
                           /\ filtered[k].date = days[i].date
                           /\ \E n \in 1..Len(filtered[k].sessions) :
                                  filtered[k].sessions[n] = days[i].sessions[j]

\* filter "x, A": of a day's "Ab", untagged and "Ab" sessions, the first and
\* the third are kept, in that order
C16_Witness ==
    /\ FilterDone
    /\ filter = Some(<<"x", ",", " ", "A">>)
    /\ Len(days) = 1
    /\ days[1].sessions = <<SessionAt(1, Some(<<"A", "b">>)), SessionAt(2, None),
                            SessionAt(3, Some(<<"A", "b">>))>>
    /\ filtered = <<[date |-> Date(2026, 2, 1),
                     sessions |-> <<SessionAt(1, Some(<<"A", "b">>)),
                                    SessionAt(3, Some(<<"A", "b">>))>>]>>

\* the input days that have a matching session, in input order
DaysWithMatch == SelectSeq(days, LAMBDA day : MatchingSessions(day) # <<>>)

\* C17: with an active filter, the returned days are exactly the input days
\* with at least one matching session, in their original order; no returned
\* day has an empty session list.
C17_DropsEmptyDays ==
    (FilterDone /\ FilterActive) =>
        /\ Len(filtered) = Len(DaysWithMatch)
        /\ \A k \in 1..Len(filtered) :
               /\ filtered[k].date = DaysWithMatch[k].date
               /\ filtered[k].sessions # <<>>

\* filter "a": the first day has only a "b" session and is dropped, the second
\* day keeps its "Ab" session
C17_Witness ==
    /\ FilterDone
    /\ filter = Some(<<"a">>)
    /\ Len(days) = 2
    /\ days[1].sessions = <<SessionAt(1, Some(<<"b">>))>>
    /\ days[2].sessions = <<SessionAt(1, Some(<<"A", "b">>))>>
    /\ Len(filtered) = 1
    /\ filtered[1].date = Date(2026, 2, 2)

\* C18: when the filter is absent, empty, or has no non-empty term after
\* splitting on ',' and trimming, filter_sessions returns its input unchanged,
\* days with no session included.
C18_InactiveFilterCopies ==
    (FilterDone /\ ~FilterActive) => filtered = days

\* filter " , ": a day without sessions and a day with one are both returned
C18_Witness ==
    /\ FilterDone
    /\ filter = Some(<<" ", ",", " ">>)
    /\ Len(days) = 2
    /\ days[1].sessions = <<>>
    /\ days[2].sessions = <<SessionAt(1, Some(<<"b">>))>>
    /\ filtered = days

----------------------------------------------------------------------------
(* client.rs: the server's response and fetch_heartbeats *)

\* a JSON value of a heartbeat record: the field is missing, null, a number
\* (in 1/Den seconds) or a string
JsonMissing == [kind |-> "missing", num |-> 0, text |-> <<>>]
JsonNull == [kind |-> "null", num |-> 0, text |-> <<>>]
JsonNumber(n) == [kind |-> "number", num |-> n, text |-> <<>>]
JsonString(t) == [kind |-> "string", num |-> 0, text |-> t]

\* WakalyzeError::Http, from a reqwest::Error
HttpError == [ok |-> FALSE, err |-> "Http", value |-> <<>>]

Decoded(v) == [ok |-> TRUE, err |-> "", value |-> v]

\* core.rs:12  time: Option<f64>  (derived Deserialize: a missing field and
\* null give None, a number gives Some, any other JSON type is a decode error)
deserialize_time(v) ==
    CASE v.kind \in {"missing", "null"} -> Decoded(None)
      [] v.kind = "number" -> Decoded(Some(v.num))
      [] OTHER -> HttpError

\* core.rs:13  project: Option<String>
deserialize_project(v) ==
    CASE v.kind \in {"missing", "null"} -> Decoded(None)
      [] v.kind = "string" -> Decoded(Some(v.text))
      [] OTHER -> HttpError

\* client.rs:9-13  HeartbeatsResponse: data defaults to the empty list; one
\* record that fails to decode fails the whole payload
deserialize_payload(data) ==
    IF data = None
    THEN Decoded(<<>>)
    ELSE LET records == data[1]
         IN  IF \E i \in 1..Len(records) :
                    \/ ~deserialize_time(records[i].time).ok
                    \/ ~deserialize_project(records[i].project).ok
             THEN HttpError
             ELSE Decoded([i \in 1..Len(records) |->
                              [time |-> deserialize_time(records[i].time).value,
                               project |-> deserialize_project(records[i].project).value]])

\* client.rs:43-58  send()?, error_for_status_ref()?, json()?, Ok(payload.data)
fetch_heartbeats(resp) ==
    IF ~resp.sent
    THEN HttpError
    ELSE IF resp.status >= 400 /\ resp.status <= 599
    THEN HttpError
    ELSE deserialize_payload(resp.data)

----------------------------------------------------------------------------
(* format.rs: build_lines; a line is the list of the pieces it is made of *)

\* the offset of the local time zone from UTC, in seconds
UtcOffset == 0

\* format.rs:5-9  "{hours}h{minutes:02}m"
format_duration(seconds) ==
    LET hours == seconds \div 3600
        minutes == (seconds % 3600) \div 60
    IN  <<hours, "h", minutes \div 10, minutes % 10, "m">>

\* format.rs:11-18  "%I:%M%p" in local time, leading zeros removed, lowercased
format_time(timestamp) ==
    LET second_of_day == (timestamp + UtcOffset) % 86400
        hour == second_of_day \div 3600
        minute == (second_of_day % 3600) \div 60
        hour12 == ((hour + 11) % 12) + 1
    IN  <<hour12, ":", minute \div 10, minute % 10, IF hour < 12 THEN "am" ELSE "pm">>

\* format.rs:20-22  "{month}/{day}"
format_date_short(date) == <<date.month, "/", date.day>>

\* format.rs:31-38  the line of one session
SessionLine(session) ==
    <<"  - ">> \o format_time(session.start) \o <<" ~ ">> \o format_time(session.end)
        \o <<" (">> \o format_duration(session.seconds) \o <<") ">>
        \o (IF session.project = None
            THEN <<"u", "n", "k", "n", "o", "w", "n">>
            ELSE session.project[1])

\* format.rs:26-40  the lines of the index-th day, a blank line before all but the first
DayLines(index, day) ==
    (IF index > 0 THEN << <<>> >> ELSE <<>>)
        \o << <<"- ">> \o format_date_short(day.date) >>
        \o [j \in 1..Len(day.sessions) |-> SessionLine(day.sessions[j])]

RECURSIVE LinesFrom(_, _)
LinesFrom(ds, index) ==
    IF index >= Len(ds)
    THEN <<>>
    ELSE DayLines(index, ds[index + 1]) \o LinesFrom(ds, index + 1)

build_lines(ds, label) == <<label>> \o LinesFrom(ds, 0)

----------------------------------------------------------------------------
(* Specification SpecAnalyze: handle_analyze from the resolved date range on *)

\* most dates in the range handle_analyze walks
MaxDates == 2

\* heartbeat records of a response: without time, with a null time, with a text
\* as time, at 0 s for project "a", at 3.5 s without project
RecordNoTime == [time |-> JsonMissing, project |-> JsonString(<<"a">>)]
RecordNullTime == [time |-> JsonNull, project |-> JsonString(<<"a">>)]
RecordTextTime == [time |-> JsonString(<<"a", "b", "c">>), project |-> JsonString(<<"a">>)]
RecordAt0 == [time |-> JsonNumber(0), project |-> JsonString(<<"a">>)]
RecordAt3 == [time |-> JsonNumber(3 * Den + 1), project |-> JsonMissing]

\* what the server may answer: no connection, a 500, a body without "data",
\* and bodies with a "data" list
AnalyzeResponses ==
    { [sent |-> FALSE, status |-> 0, data |-> None],
      [sent |-> TRUE, status |-> 500, data |-> None],
      [sent |-> TRUE, status |-> 200, data |-> None] }
    \cup
    { [sent |-> TRUE, status |-> 200, data |-> Some(records)] :
        records \in { <<>>, <<RecordAt0>>, <<RecordAt0, RecordAt3>>,
                      <<RecordNoTime, RecordAt0>>, <<RecordNullTime, RecordAt3>>,
                      <<RecordTextTime, RecordAt0>> } }

\* the ranges: from a start on 28 February 2026, at least one date
AnalyzeRanges ==
    LET window == {add_days(Date(2026, 2, 28), n) : n \in 0..(MaxDates - 1)}
    IN  {r \in window \X window : DateLe(r[1], r[2])}

\* cli.rs:225-232  the label of the report
AnalyzeLabel == <<"2", "0", "2", "6", "/", "0", "2">>

\* cli.rs:269  args.filter: none, "a", "unknown"
AnalyzeFilters == {None, Some(<<"a">>), Some(<<"u", "n", "k", "n", "o", "w", "n">>)}

\* Ok(()) of handle_analyze
Done == [ok |-> TRUE, err |-> "", value |-> <<>>]

\* the variables handle_analyze leaves alone
analyzeIdleVars == <<entries, sessions, copy, prev_sessions, times, total, value,
                     parsed, first_day, week, week_result, last_day, sequelVars>>

InitAnalyze ==
    /\ pc = "dates"
    /\ SequelIdle
    /\ heartbeats = <<>>
    /\ max_gap \in 1..MaxGap
    /\ entries = <<>>
    /\ sessions = <<>>
    /\ copy = None
    /\ prev_sessions = <<>>
    /\ times = <<>>
    /\ total = 0
    /\ value = <<>>
    /\ parsed = None
    /\ first_day = None
    /\ week = 0
    /\ week_result = None
    /\ last_day = None
    /\ range \in {Some(r) : r \in AnalyzeRanges}
    /\ dates = <<>>
    /\ days = <<>>
    /\ filter \in AnalyzeFilters
    /\ filtered = <<>>
    /\ idx = 0
    /\ fetch_log = <<>>
    /\ printed = <<>>
    /\ result = None

\* cli.rs:242  let dates = iter_dates(start, end)
AnalyzeDates ==
    /\ pc = "dates"
    /\ dates' = iter_dates(range[1][1], range[1][2])
    /\ pc' = IF dates' = <<>> THEN "filter" ELSE "fetch"
    /\ UNCHANGED <<heartbeats, max_gap, range, filterVars, analyzeVars, analyzeIdleVars>>

NeverErr(r) == FALSE

\* cli.rs:260  the `?` on the result of fetch_heartbeats
IsErr(r) == ~r.ok

\* cli.rs:260  let heartbeats = client.fetch_heartbeats(*date)?
FetchHeartbeats ==
    /\ pc = "fetch"
    /\ \E resp \in AnalyzeResponses :
           LET r == fetch_heartbeats(resp)
           IN  /\ fetch_log' = Append(fetch_log, [date |-> dates[idx + 1], response |-> resp])
               /\ IF IsErr(r)
                  THEN /\ result' = Some([ok |-> FALSE, err |-> r.err, value |-> <<>>])
                       /\ pc' = "done"
                       /\ UNCHANGED heartbeats
                  ELSE /\ heartbeats' = r.value
                       /\ pc' = "build"
                       /\ UNCHANGED result
    /\ UNCHANGED <<max_gap, range, dates, filterVars, idx, printed, analyzeIdleVars>>

NoMoreDates(done, ds) == FALSE

\* cli.rs:259  for date in &dates: the loop goes on while a date is left
MoreDates(done, ds) == done < Len(ds)

\* cli.rs:261-264  days.push(DaySessions { date, sessions: build_sessions(..) })
BuildDay ==
    /\ pc = "build"
    /\ days' = Append(days, [date |-> dates[idx + 1],
                             sessions |-> build_sessions(heartbeats, max_gap)])
    /\ idx' = idx + 1
    /\ pc' = IF MoreDates(idx + 1, dates) THEN "fetch" ELSE "filter"
    /\ UNCHANGED <<heartbeats, max_gap, range, dates, filter, filtered,
                   fetch_log, printed, result, analyzeIdleVars>>

\* cli.rs:269  let days = filter_sessions(&days, args.filter.as_deref())
FilterDays ==
    /\ pc = "filter"
    /\ filtered' = filter_sessions(days, filter)
    /\ pc' = "render"
    /\ UNCHANGED <<heartbeats, max_gap, range, dates, days, filter,
                   analyzeVars, analyzeIdleVars>>

\* cli.rs:271-274  println! of every line of build_lines, then Ok(())
Render ==
    /\ pc = "render"
    /\ printed' = build_lines(filtered, AnalyzeLabel)
    /\ result' = Some(Done)
    /\ pc' = "done"
    /\ UNCHANGED <<heartbeats, max_gap, range, dates, filterVars, idx, fetch_log,
                   analyzeIdleVars>>

NextAnalyze ==
    \/ AnalyzeDates
    \/ FetchHeartbeats
    \/ BuildDay
    \/ FilterDays
    \/ Render

SpecAnalyze == InitAnalyze /\ [][NextAnalyze]_vars

----------------------------------------------------------------------------
(* Claims about the fetch loop of handle_analyze *)

\* the k-th fetch failed and ended the command
FetchFailedAt(k) ==
    /\ k = Len(fetch_log)
    /\ idx = k - 1
    /\ result # None
    /\ ~result[1].ok

\* the server answered the k-th fetch with status 200 and a "data" list
Answered(k) ==
    /\ fetch_log[k].response.sent
    /\ fetch_log[k].response.status = 200
    /\ fetch_log[k].response.data # None

\* the records of the k-th response whose time is a number, as raw heartbeats
WellTimed(k) ==
    LET records == fetch_log[k].response.data[1]
        numeric == SelectSeq(records, LAMBDA rec : rec.time.kind = "number")
    IN  [i \in 1..Len(numeric) |->
            [time |-> Some(numeric[i].time.num),
             project |-> IF numeric[i].project.kind = "string"
                         THEN Some(numeric[i].project.text) ELSE None]]

\* C19 (as claimed): a record whose time is missing or is not a number is
\* dropped without error: the fetch of its day does not fail, and the day's
\* sessions are those of the other records.
C19_Claimed_BadTimeNeverFails ==
    \A k \in 1..Len(fetch_log) :
        Answered(k) =>
            /\ ~FetchFailedAt(k)
            /\ k <= Len(days) =>
                   days[k].sessions = build_sessions(WellTimed(k), max_gap)

\* a fetch whose processing by the model returned an error
LoggedFailure(k) == ~fetch_heartbeats(fetch_log[k].response).ok

\* C20: the dates are fetched in order, one at a time, each at most once; when
\* a fetch fails the error is returned at once: no later date is fetched, and
\* nothing is filtered or printed.
C20_FailFastNoPartialReport ==
    /\ Len(fetch_log) <= Len(dates)
    /\ \A k \in 1..Len(fetch_log) : fetch_log[k].date = dates[k]
    /\ \A j, k \in 1..Len(dates) : j # k => dates[j] # dates[k]
    /\ Len(fetch_log) \in {idx, idx + 1}
    /\ \A k \in 1..Len(fetch_log) :
           LoggedFailure(k) =>
               /\ k = Len(fetch_log)
               /\ pc = "done"
               /\ result = Some(HttpError)
               /\ idx = k - 1
               /\ filtered = <<>>
               /\ printed = <<>>

\* two dates: the first is fetched and built, the second fetch gets a 500; the
\* command ends with the error and prints nothing
C20_Witness ==
    /\ Len(dates) = 2
    /\ Len(fetch_log) = 2
    /\ fetch_log[1].response.data = Some(<<RecordAt0>>)
    /\ fetch_log[2].response.status = 500
    /\ Len(days) = 1
    /\ days[1].sessions # <<>>
    /\ pc = "done"
    /\ result = Some(HttpError)
    /\ printed = <<>>

\* the heartbeat list the k-th fetch returned
Fetched(k) == fetch_heartbeats(fetch_log[k].response)

\* the number of dates of the resolved range
RangeLength == DaysFromEpoch(range[1][2]) - DaysFromEpoch(range[1][1]) + 1

\* filter_sessions has been called, or is about to be
FilteringStarted == pc \in {"filter", "render"} \/ (pc = "done" /\ result = Some(Done))

\* C21: the sessions of a date are built from the full list its fetch returned,
\* after that fetch; the days handed to filter_sessions are one per date of the
\* range, dates without heartbeats included, in ascending date order; filtering
\* and rendering start only after every date has been processed.
C21_FetchBuildThenFilter ==
    /\ Len(days) = idx
    /\ \A k \in 1..Len(days) :
           /\ k <= Len(fetch_log)
           /\ Fetched(k).ok
           /\ fetch_log[k].date = days[k].date
           /\ days[k].date = add_days(range[1][1], k - 1)
           /\ days[k].sessions = build_sessions(Fetched(k).value, max_gap)
    /\ \A j, k \in 1..Len(days) : j < k => DateLt(days[j].date, days[k].date)
    /\ FilteringStarted =>
           /\ Len(days) = RangeLength
           /\ Len(fetch_log) = RangeLength
    /\ (filtered # <<>> \/ printed # <<>>) => FilteringStarted /\ pc # "filter"
    /\ pc \in {"render", "done"} /\ result # Some(HttpError) =>
           filtered = filter_sessions(days, filter)
    /\ printed # <<>> => pc = "done" /\ printed = build_lines(filtered, AnalyzeLabel)

\* 28 February and 1 March 2026: the first date has no heartbeat, the second
\* has two sessions; both days reach the filter and the report is printed
C21_Witness ==
    /\ pc = "done"
    /\ result = Some(Done)
    /\ filter = None
    /\ Len(days) = 2
    /\ days[1] = [date |-> Date(2026, 2, 28), sessions |-> <<>>]
    /\ days[2].date = Date(2026, 3, 1)
    /\ Len(days[2].sessions) = 2
    /\ filtered = days
    /\ Len(printed) = 6

----------------------------------------------------------------------------
(* cli.rs: resolve_field, resolve_user, resolve_base_url, resolve_basic_auth;
   client.rs: encode_api_key *)

\* the byte of a character of the model's alphabet
Byte(c) ==
    CASE c = "\t" -> 9
      [] c = " " -> 32
      [] c = "a" -> 97
      [] c = "c" -> 99
      [] c = "e" -> 101
      [] c = "k" -> 107
      [] c = "y" -> 121

\* the alphabet of base64::engine::general_purpose::STANDARD
Base64Alphabet ==
    <<"A", "B", "C", "D", "E", "F", "G", "H", "I", "J", "K", "L", "M",
      "N", "O", "P", "Q", "R", "S", "T", "U", "V", "W", "X", "Y", "Z",
      "a", "b", "c", "d", "e", "f", "g", "h", "i", "j", "k", "l", "m",
      "n", "o", "p", "q", "r", "s", "t", "u", "v", "w", "x", "y", "z",
      "0", "1", "2", "3", "4", "5", "6", "7", "8", "9", "+", "/">>

Sextet(n) == Base64Alphabet[n + 1]

\* STANDARD.encode: three bytes give four characters, the rest is padded with '='
RECURSIVE base64_encode(_)
base64_encode(bytes) ==
    IF bytes = <<>>
    THEN <<>>
    ELSE IF Len(bytes) = 1
    THEN <<Sextet(bytes[1] \div 4), Sextet((bytes[1] % 4) * 16), "=", "=">>
    ELSE IF Len(bytes) = 2
    THEN <<Sextet(bytes[1] \div 4),
           Sextet((bytes[1] % 4) * 16 + bytes[2] \div 16),
           Sextet((bytes[2] % 16) * 4), "=">>
    ELSE <<Sextet(bytes[1] \div 4),
           Sextet((bytes[1] % 4) * 16 + bytes[2] \div 16),
           Sextet((bytes[2] % 16) * 4 + bytes[3] \div 64),
           Sextet(bytes[3] % 64)>>
         \o base64_encode(SubSeq(bytes, 4, Len(bytes)))

\* client.rs:17-20  format!("Basic {encoded}")
encode_api_key(key) ==
    <<"B", "a", "s", "i", "c", " ">> \o base64_encode([i \in 1..Len(key) |-> Byte(key[i])])

\* client.rs:15
DEFAULT_BASE_URL ==
    <<"h", "t", "t", "p", "s", ":", "/", "/", "w", "a", "k", "a", "p", "i", ".", "d", "e", "v">>

MissingAuth == [ok |-> FALSE, err |-> "MissingAuth", value |-> <<>>]
MissingUser == [ok |-> FALSE, err |-> "MissingUser", value |-> <<>>]

NonEmptyUntrimmed(opt) ==
    IF opt # None /\ trim(opt[1]) # <<>> THEN opt ELSE None

\* cli.rs:104-107  .and_then(non_empty): the trimmed text, if any is left
non_empty(opt) ==
    IF opt # None /\ trim(opt[1]) # <<>> THEN Some(trim(opt[1])) ELSE None

\* cli.rs:119-125  std::env::var(env_var).ok().as_deref().and_then(non_empty)
resolve_from_env(env_var) == non_empty(env[env_var])

resolve_field_env_first(arg, config_val, env_var) ==
    IF resolve_from_env(env_var) # None THEN resolve_from_env(env_var)
    ELSE IF non_empty(arg) # None THEN non_empty(arg)
    ELSE non_empty(config_val)

\* cli.rs:127-132  the argument, or else the config value, or else the environment
resolve_field(arg, config_val, env_var) ==
    IF non_empty(arg) # None THEN non_empty(arg)
    ELSE IF non_empty(config_val) # None THEN non_empty(config_val)
    ELSE resolve_from_env(env_var)

\* cli.rs:134-137
resolve_user(args_user, cfg) ==
    LET found == resolve_field(args_user, cfg.user, "WAKAPI_USER")
    IN  IF found = None THEN MissingUser ELSE Decoded(found[1])

\* cli.rs:139-142
resolve_base_url(args_url, cfg) ==
    LET found == resolve_field(args_url, cfg.base_url, "WAKAPI_BASE_URL")
    IN  IF found = None THEN DEFAULT_BASE_URL ELSE found[1]

EnvKeyFirst(cfg) ==
    IF resolve_from_env("WAKAPI_KEY") # None
    THEN Decoded(encode_api_key(resolve_from_env("WAKAPI_KEY")[1]))
    ELSE IF non_empty(cfg.key) # None
    THEN Decoded(encode_api_key(non_empty(cfg.key)[1]))
    ELSE MissingAuth

\* cli.rs:109-117
resolve_basic_auth(cfg) ==
    IF non_empty(cfg.key) # None
    THEN Decoded(encode_api_key(non_empty(cfg.key)[1]))
    ELSE IF resolve_from_env("WAKAPI_KEY") # None
    THEN Decoded(encode_api_key(resolve_from_env("WAKAPI_KEY")[1]))
    ELSE MissingAuth

----------------------------------------------------------------------------
(* Specification SpecResolve: the credential resolution of handle_analyze *)

\* a text that is absent, empty or blank, besides the given one
Sources(text) == {None, Some(<<>>), Some(<<" ", "\t">>), Some(text)}

\* the same without the empty text
FewSources(text) == {None, Some(<<" ">>), Some(text)}

InitResolve ==
    /\ pc = "ready"
    /\ CoreIdle
    /\ CalendarIdle
    /\ days = <<>>
    /\ filter = None
    /\ filtered = <<>>
    /\ idx = 0
    /\ fetch_log = <<>>
    /\ printed = <<>>
    /\ result = None
    /\ args \in [user : Sources(<<" ", "a">>), base_url : FewSources(<<"a">>)]
    /\ config \in [key : Sources(<<" ", "k", "e", "y">>),
                   user : Sources(<<"c", " ">>),
                   base_url : FewSources(<<"c">>)]
    /\ env \in [WAKAPI_KEY : Sources(<<"e", "\t">>),
                WAKAPI_USER : Sources(<<"e">>),
                WAKAPI_BASE_URL : FewSources(<<" ", "e", " ">>)]
    /\ resolved = None
    /\ variant = <<>>
    /\ variant_sessions = <<>>
    /\ month_weeks = <<>>

\* cli.rs:222, 234-235  resolve_base_url, resolve_user, resolve_basic_auth
Resolve ==
    /\ pc = "ready"
    /\ pc' = "resolved"
    /\ resolved' = Some([base_url |-> resolve_base_url(args.base_url, config),
                         user |-> resolve_user(args.user, config),
                         auth |-> resolve_basic_auth(config)])
    /\ UNCHANGED <<coreVars, calendarVars, filterVars, analyzeVars,
                   args, config, env, variant, variant_sessions, month_weeks>>

NextResolve == Resolve

SpecResolve == InitResolve /\ [][NextResolve]_vars

Resolved == pc = "resolved"

\* absent, empty, or made of whitespace only
Blank(opt) == opt = None \/ \A i \in 1..Len(opt[1]) : opt[1][i] \in {" ", "\t"}

\* the text between its first and its last character that is not whitespace
Core(opt) ==
    LET t == opt[1]
        solid == {i \in 1..Len(t) : t[i] \notin {" ", "\t"}}
        first == CHOOSE i \in solid : \A j \in solid : i <= j
        last == CHOOSE i \in solid : \A j \in solid : j <= i
    IN  SubSeq(t, first, last)

\* the first of the sources that is not blank, or None
FirstGiven(sources) ==
    LET given == SelectSeq(sources, LAMBDA o : ~Blank(o))
    IN  IF given = <<>> THEN None ELSE Some(Core(given[1]))

\* "Basic " and the base64 text of the keys of the model
ExpectedHeader(key) ==
    IF key = <<"k", "e", "y">>
    THEN <<"B", "a", "s", "i", "c", " ", "a", "2", "V", "5">>
    ELSE IF key = <<"e">>
    THEN <<"B", "a", "s", "i", "c", " ", "Z", "Q", "=", "=">>
    ELSE <<>>

\* C22: user and base URL come from the argument, else the stored config, else
\* the environment variable, blank values skipped at every level; the base URL
\* falls back to the default URL, a user found nowhere is MissingUser; the key
\* comes from the stored config, else WAKAPI_KEY, else MissingAuth. The value
\* taken is the source's text without its surrounding whitespace.
C22_FixedPrecedenceSkippingBlanks ==
    Resolved =>
        LET user == FirstGiven(<<args.user, config.user, env.WAKAPI_USER>>)
            url == FirstGiven(<<args.base_url, config.base_url, env.WAKAPI_BASE_URL>>)
            key == FirstGiven(<<config.key, env.WAKAPI_KEY>>)
        IN  /\ resolved[1].user =
                   (IF user = None THEN MissingUser ELSE Decoded(user[1]))
            /\ resolved[1].base_url =
                   (IF url = None THEN DEFAULT_BASE_URL ELSE url[1])
            /\ resolved[1].auth =
                   (IF key = None THEN MissingAuth
                    ELSE Decoded(ExpectedHeader(key[1])))

\* a blank --user and a blank config key: the user comes from the config, the
\* key from WAKAPI_KEY, the base URL is the default
C22_Witness ==
    /\ Resolved
    /\ args = [user |-> Some(<<" ", "\t">>), base_url |-> None]
    /\ config = [key |-> Some(<<>>), user |-> Some(<<"c", " ">>), base_url |-> Some(<<" ">>)]
    /\ env = [WAKAPI_KEY |-> Some(<<"e", "\t">>), WAKAPI_USER |-> Some(<<"e">>),
              WAKAPI_BASE_URL |-> None]
    /\ resolved[1].user = Decoded(<<"c">>)
    /\ resolved[1].auth = Decoded(<<"B", "a", "s", "i", "c", " ", "Z", "Q", "=", "=">>)
    /\ resolved[1].base_url = DEFAULT_BASE_URL

----------------------------------------------------------------------------
(* Specification SpecVariant: build_sessions on a heartbeat list and on the
   same list without its later repeats, or in another order *)

\* longest heartbeat list that is reduced or reordered
MaxVariantLen == 3

\* times 0 s, a fraction of a second (integer timestamp 0) and 1 s
VariantTimes == {Some(0), Some(1), Some(Den)}

\* projects: absent, blank (normalized to absent), "a"
VariantProjects == {None, Some(<<" ">>), Some(<<"a">>)}

VariantHeartbeats == [time : VariantTimes, project : VariantProjects]

\* hbs[i] is the first heartbeat of hbs that carries its integer timestamp
FirstCarrier(hbs, i) ==
    \A j \in 1..(i - 1) : TruncToI64(hbs[j].time[1]) # TruncToI64(hbs[i].time[1])

\* hbs without every later heartbeat whose integer timestamp was already seen
RECURSIVE WithoutLaterRepeats(_, _)
WithoutLaterRepeats(hbs, i) ==
    IF i > Len(hbs)
    THEN <<>>
    ELSE (IF FirstCarrier(hbs, i) THEN <<hbs[i]>> ELSE <<>>)
             \o WithoutLaterRepeats(hbs, i + 1)

Reorderings(n) == {f \in [1..n -> 1..n] : \A i, j \in 1..n : f[i] = f[j] => i = j}

InitVariant ==
    /\ pc = "ready"
    /\ LaterIdle
    /\ heartbeats \in SeqsUpTo(VariantHeartbeats, MaxVariantLen)
    /\ max_gap \in {0, MaxGap}
    /\ entries = <<>>
    /\ sessions = <<>>
    /\ copy = None
    /\ prev_sessions = <<>>
    /\ times = <<>>
    /\ total = 0
    /\ value = <<>>
    /\ parsed = None

\* build_sessions on heartbeats and on heartbeats without its later repeats
BuildWithoutRepeats ==
    /\ pc = "ready"
    /\ pc' = "reduced"
    /\ variant' = WithoutLaterRepeats(heartbeats, 1)
    /\ sessions' = build_sessions(heartbeats, max_gap)
    /\ variant_sessions' = build_sessions(variant', max_gap)
    /\ UNCHANGED <<heartbeats, max_gap, entries, copy, prev_sessions, times, total,
                   value, parsed, calendarVars, filterVars, analyzeVars, resolveVars,
                   month_weeks>>

\* build_sessions on heartbeats and on heartbeats in another order
BuildReordered ==
    /\ pc = "ready"
    /\ pc' = "reordered"
    /\ \E f \in Reorderings(Len(heartbeats)) :
           variant' = [i \in 1..Len(heartbeats) |-> heartbeats[f[i]]]
    /\ sessions' = build_sessions(heartbeats, max_gap)
    /\ variant_sessions' = build_sessions(variant', max_gap)
    /\ UNCHANGED <<heartbeats, max_gap, entries, copy, prev_sessions, times, total,
                   value, parsed, calendarVars, filterVars, analyzeVars, resolveVars,
                   month_weeks>>

NextVariant == BuildWithoutRepeats \/ BuildReordered

SpecVariant == InitVariant /\ [][NextVariant]_vars

\* heartbeats that share an integer timestamp share their normalized project
TiesShareProject ==
    \A i, j \in 1..Len(heartbeats) :
        TruncToI64(heartbeats[i].time[1]) = TruncToI64(heartbeats[j].time[1])
            => NormalizeProject(heartbeats[i].project) = NormalizeProject(heartbeats[j].project)

\* the normalized projects of the first heartbeats of each integer timestamp
FirstProjects ==
    {NormalizeProject(heartbeats[i].project) :
        i \in {j \in 1..Len(heartbeats) : FirstCarrier(heartbeats, j)}}

\* C24: build_sessions depends only on the first heartbeat, in input order, of
\* each integer timestamp: without the later repeats the sessions are the same;
\* they are the same for every reordering when heartbeats sharing a timestamp
\* share their normalized project; and a project found only on later repeats
\* is the project of no session.
C24_FirstHeartbeatPerTimestampDecides ==
    /\ pc = "reduced" => variant_sessions = sessions
    /\ (pc = "reordered" /\ TiesShareProject) => variant_sessions = sessions
    /\ pc \in {"reduced", "reordered"} =>
           \A k \in 1..Len(sessions) : sessions[k].project \in FirstProjects

\* "a" at 0 s, an untagged repeat at 0.5 s and "a" at 1 s: the repeat is
\* removed and the one session of "a" stays as it was
C24_Witness ==
    /\ pc = "reduced"
    /\ max_gap = MaxGap
    /\ heartbeats = <<[time |-> Some(0), project |-> Some(<<"a">>)],
                      [time |-> Some(1), project |-> None],
                      [time |-> Some(Den), project |-> Some(<<"a">>)]>>
    /\ Len(variant) = 2
    /\ Len(sessions) = 1
    /\ sessions[1].project = Some(<<"a">>)
    /\ sessions[1].end = 1
    /\ variant_sessions = sessions

\* the same "a" heartbeats with a blank-project heartbeat at 1 s moved to the front
C24_ReorderedWitness ==
    /\ pc = "reordered"
    /\ TiesShareProject
    /\ Len(heartbeats) = 3
    /\ variant # heartbeats
    /\ Len(sessions) = 2
    /\ variant_sessions = sessions

----------------------------------------------------------------------------
(* Specification SpecMonthWeeks: week_range for every week number of a month *)

InitMonthWeeks ==
    /\ pc = "ready"
    /\ CoreIdle
    /\ first_day \in {Some(d) : d \in FirstDays}
    /\ week = 0
    /\ week_result = None
    /\ last_day = None
    /\ range = None
    /\ dates = <<>>
    /\ PipelineIdle

\* week_range(first_day, w) for w = 0, 1, ..., MaxWeek, and month_last_day(first_day)
MonthWeekRanges ==
    /\ pc = "ready"
    /\ pc' = "weeks"
    /\ month_weeks' = [w \in 0..MaxWeek |-> week_range(first_day[1], w)]
    /\ last_day' = Some(month_last_day(first_day[1]))
    /\ UNCHANGED <<coreVars, first_day, week, week_result, range, dates,
                   filterVars, analyzeVars, resolveVars, variant, variant_sessions>>

NextMonthWeeks == MonthWeekRanges

SpecMonthWeeks == InitMonthWeeks /\ [][NextMonthWeeks]_vars

MonthWeeksDone == pc = "weeks"

\* the week numbers for which week_range succeeds
ValidWeeks == {w \in 0..MaxWeek : month_weeks[w].ok}

\* the day numbers of the month
MonthDayNumbers == DaysFromEpoch(first_day[1])..DaysFromEpoch(last_day[1])

\* the day number n lies in the range of week w
InWeek(n, w) ==
    /\ DaysFromEpoch(month_weeks[w].start) <= n
    /\ n <= DaysFromEpoch(month_weeks[w].end)

\* C25: for every month the weeks for which week_range succeeds are 1..k with
\* k in {4, 5, 6}; their ranges follow one another without gap or overlap, each
\* holds a day of the month, and every day of the month is in exactly one.
C25_WeeksPartitionMonth ==
    MonthWeeksDone =>
        LET k == Cardinality(ValidWeeks)
        IN  /\ k \in {4, 5, 6}
            /\ ValidWeeks = 1..k
            /\ \A w \in ValidWeeks :
                   /\ DateLe(month_weeks[w].start, month_weeks[w].end)
                   /\ \E n \in MonthDayNumbers : InWeek(n, w)
            /\ \A w \in 1..(k - 1) :
                   DaysFromEpoch(month_weeks[w + 1].start)
                       = DaysFromEpoch(month_weeks[w].end) + 1
            /\ \A n \in MonthDayNumbers :
                   Cardinality({w \in ValidWeeks : InWeek(n, w)}) = 1

\* August 2026 starts on a Saturday and has 31 days: six weeks, the sixth from
\* 30 August to 5 September, the first holding only 1 August
C25_Witness ==
    /\ MonthWeeksDone
    /\ first_day = Some(Date(2026, 8, 1))
    /\ ValidWeeks = 1..6
    /\ month_weeks[1].end = Date(2026, 8, 1)
    /\ month_weeks[6].start = Date(2026, 8, 30)
    /\ month_weeks[6].end = Date(2026, 9, 5)

\* February 2026 starts on a Sunday and has 28 days: four weeks
C25_FourWeeksWitness ==
    /\ MonthWeeksDone
    /\ first_day = Some(Date(2026, 2, 1))
    /\ ValidWeeks = 1..4

----------------------------------------------------------------------------
(* Claims about untagged sessions in a filtered report *)

\* handle_analyze has filtered the days it built
AnalyzeFiltered == pc \in {"render", "done"} /\ result # Some(HttpError)

\* the day has a session and none of its sessions has a project
AllUntagged(day) ==
    /\ day.sessions # <<>>
    /\ \A n \in 1..Len(day.sessions) : day.sessions[n].project = None

\* the line build_lines writes for the date of a day
DateLine(day) == <<"- ", day.date.month, "/", day.date.day>>

\* C26: with an active filter no session without project is kept, whatever the
\* terms, "unknown" included; a day whose sessions are all untagged is neither
\* in the filtered days nor in the printed report.
C26_UntaggedNeverKept ==
    (AnalyzeFiltered /\ FilterActive) =>
        /\ \A k \in 1..Len(filtered) :
               \A n \in 1..Len(filtered[k].sessions) :
                   filtered[k].sessions[n].project # None
        /\ \A i \in 1..Len(days) :
               AllUntagged(days[i]) =>
                   /\ \A k \in 1..Len(filtered) : filtered[k].date # days[i].date
                   /\ \A l \in 1..Len(printed) : printed[l] # DateLine(days[i])

\* filter "unknown": 28 February has one untagged session, 1 March an "a" and
\* an untagged session; nothing is kept and only the label is printed
C26_Witness ==
    /\ pc = "done"
    /\ result = Some(Done)
    /\ filter = Some(<<"u", "n", "k", "n", "o", "w", "n">>)
    /\ Len(days) = 2
    /\ AllUntagged(days[1])
    /\ Len(days[2].sessions) = 2
    /\ days[2].sessions[2].project = None
    /\ filtered = <<>>
    /\ printed = <<AnalyzeLabel>>

====
